---- MODULE Spec2Model ----
(***************************************************************************)
(* Model of main.py: read an edge list, pick the greedy colouring strategy *)
(* with the fewest colours, colour the graph again with it and write the   *)
(* colouring.  nx.Graph.add_edge and nx.coloring.greedy_color are library  *)
(* calls of main.py; they are modelled here by what networkx computes at   *)
(* the call sites (insertion-ordered adjacency, the seven strategies of    *)
(* networkx/algorithms/coloring/greedy_coloring.py).  Where the library    *)
(* takes "an arbitrary element" of a set (set.pop, set iteration), every   *)
(* element is a possible outcome.                                          *)
(***************************************************************************)
EXTENDS Integers, Sequences, FiniteSets, TLC

\* Bounds of the model: vertex ids 1..MaxV, at most MaxRows edge rows.
MaxV == 3
MaxRows == 3

Vertices == 1..MaxV

Range(s) == {s[k] : k \in 1..Len(s)}

Max(S) == CHOOSE x \in S : \A y \in S : y <= x

Min(S) == CHOOSE x \in S : \A y \in S : x <= y

RECURSIVE SeqsUpTo(_, _)
SeqsUpTo(S, n) ==
  IF n = 0 THEN {<<>>}
  ELSE LET shorter == SeqsUpTo(S, n - 1)
       IN shorter \cup {Append(s, x) : s \in {t \in shorter : Len(t) = n - 1}, x \in S}

(***************************************************************************)
(* The input file: a sequence of rows, a row the sequence of its           *)
(* space-separated fields (csv.reader with delimiter " ").                 *)
(***************************************************************************)
Str(n) == ToString(n)

\* int(field): the integer a field denotes; fields that denote none raise.
IntTokens == {Str(n) : n \in 0..(MaxV + 3)}

IsInt(tok) == tok \in IntTokens

ParseInt(tok) == CHOOSE n \in 0..(MaxV + 3) : Str(n) = tok

HeaderRow == <<"vertex1", "vertex2">>

EdgeRows == {<<Str(u), Str(v)>> : u, v \in Vertices}

\* Rows that are not exactly two integers: too few fields, a field that is
\* no integer, too many fields.
BadRows == {<<"1">>, <<"1", "x">>, <<"1", "2", "3">>}

\* Fields after the second are ignored
RowParsesFirstTwo(row) == Len(row) >= 2 /\ IsInt(row[1]) /\ IsInt(row[2])

\* vertex1, vertex2 = map(int, row) succeeds
RowParses(row) == Len(row) = 2 /\ IsInt(row[1]) /\ IsInt(row[2])

\* The triangle and the two disjoint edges of the specification's scenarios,
\* a path on six vertices whose two inner vertices at distance three come
\* first in insertion order, and the complete graph on four vertices.
ScenarioFiles ==
  { <<HeaderRow, <<"1", "2">>, <<"2", "3">>, <<"3", "1">> >>,
    <<HeaderRow, <<"1", "2">>, <<"3", "4">> >>,
    <<HeaderRow, <<"1", "2">>, <<"5", "6">>, <<"2", "3">>, <<"4", "5">>, <<"3", "4">> >>,
    <<HeaderRow, <<"1", "2">>, <<"1", "3">>, <<"1", "4">>, <<"2", "3">>, <<"2", "4">>,
      <<"3", "4">> >> }

\* Every file of a header and at most MaxRows rows, the file with no line
\* at all, and the scenarios.
InputFiles ==
  {<<HeaderRow>> \o rows : rows \in SeqsUpTo(EdgeRows \cup BadRows, MaxRows)}
    \cup {<<>>} \cup ScenarioFiles

(***************************************************************************)
(* nx.Graph as main.py builds it: nodes in insertion order, each node's    *)
(* neighbours in insertion order.                                          *)
(***************************************************************************)
AddOnce(s, x) == IF x \in Range(s) THEN s ELSE Append(s, x)

\* graph.add_edge(vertex1, vertex2)
add_edge(g, u, v) ==
  LET ns == AddOnce(AddOnce(g.nodes, u), v)
      old(x) == IF x \in DOMAIN g.adj THEN g.adj[x] ELSE <<>>
  IN [nodes |-> ns,
      adj |-> [x \in Range(ns) |->
                 IF x = u /\ x = v THEN AddOnce(old(x), x)
                 ELSE IF x = u THEN AddOnce(old(x), v)
                 ELSE IF x = v THEN AddOnce(old(x), u)
                 ELSE old(x)]]

\* nx.Graph()
EmptyGraph == [nodes |-> <<>>, adj |-> <<>>]

NodeSet(g) == Range(g.nodes)

Nbrs(g, v) == Range(g.adj[v])

HasSelfLoop(g) == \E v \in NodeSet(g) : v \in Nbrs(g, v)

\* G.subgraph(keep).degree(v): a self-loop counts twice
DegreeIn(g, keep, v) ==
  Cardinality(Nbrs(g, v) \cap keep) + (IF v \in Nbrs(g, v) /\ v \in keep THEN 1 ELSE 0)

\* G.degree(v)
Degree(g, v) == DegreeIn(g, NodeSet(g), v)

(***************************************************************************)
(* nx.coloring.greedy_color(graph, strategy=strategy): the strategy gives  *)
(* the order of the nodes; each node in turn gets the smallest colour no   *)
(* already coloured neighbour has.                                         *)
(***************************************************************************)
possible_strategies ==
  << "largest_first", "random_sequential", "smallest_last", "independent_set",
     "connected_sequential_bfs", "connected_sequential_dfs",
     "saturation_largest_first" >>

\* The loop's test inverted: stops at the first colour a neighbour has
FirstUsed(used) == Min({c \in 0..Cardinality(used) : c \in used} \cup {0})

\* The count started at 1
FirstUnusedFromOne(used) == Min({c \in 1..(Cardinality(used) + 1) : c \notin used})

\* for color in itertools.count(): if color not in nbr_colors: break
FirstUnused(used) == Min({c \in 0..Cardinality(used) : c \notin used})

\* Only the neighbour coloured last in adjacency order is looked at
ColorNodeLastNbr(g, colors, u) ==
  LET done == SelectSeq(g.adj[u], LAMBDA v : v \in DOMAIN colors)
      nbr_colors == IF done = <<>> THEN {} ELSE {colors[done[Len(done)]]}
  IN [x \in DOMAIN colors \cup {u} |->
        IF x = u THEN FirstUnused(nbr_colors) ELSE colors[x]]

\* Every node coloured so far is taken for a neighbour
ColorNodeAllColored(g, colors, u) ==
  LET nbr_colors == {colors[v] : v \in DOMAIN colors}
  IN [x \in DOMAIN colors \cup {u} |->
        IF x = u THEN FirstUnused(nbr_colors) ELSE colors[x]]

\* nbr_colors = {colors[v] for v in G[u] if v in colors}; colors[u] = color
ColorNode(g, colors, u) ==
  LET nbr_colors == {colors[v] : v \in Nbrs(g, u) \cap DOMAIN colors}
  IN [x \in DOMAIN colors \cup {u} |->
        IF x = u THEN FirstUnused(nbr_colors) ELSE colors[x]]

RECURSIVE ColorInOrder(_, _, _)
ColorInOrder(g, colors, order) ==
  IF order = <<>> THEN colors
  ELSE ColorInOrder(g, ColorNode(g, colors, Head(order)), Tail(order))

\* sorted(G, key=G.degree, reverse=True): stable, so equal degrees keep the
\* insertion order of the nodes
RECURSIVE StableByDegreeDesc(_, _)
StableByDegreeDesc(g, rest) ==
  IF rest = <<>> THEN <<>>
  ELSE LET top == Max({Degree(g, rest[k]) : k \in 1..Len(rest)})
           k == Min({j \in 1..Len(rest) : Degree(g, rest[j]) = top})
       IN <<rest[k]>> \o
          StableByDegreeDesc(g, SubSeq(rest, 1, k - 1) \o SubSeq(rest, k + 1, Len(rest)))

strategy_largest_first(g) == {StableByDegreeDesc(g, g.nodes)}

\* nodes = list(G); seed.shuffle(nodes): any permutation
strategy_random_sequential(g) ==
  {[k \in 1..Len(g.nodes) |-> g.nodes[p[k]]] : p \in Permutations(1..Len(g.nodes))}

\* Pop a node of minimum degree in what is left (set.pop: any of them),
\* result.appendleft(u), remove it.
RECURSIVE SmallestLastOrders(_, _)
SmallestLastOrders(g, remaining) ==
  IF remaining = {} THEN {<<>>}
  ELSE LET m == Min({DegreeIn(g, remaining, v) : v \in remaining})
       IN UNION {{Append(s, u) : s \in SmallestLastOrders(g, remaining \ {u})} :
                 u \in {v \in remaining : DegreeIn(g, remaining, v) = m}}

\* Updating the degree bucket of a popped node's neighbours removes the node
\* itself from the bucket it was popped from when it is its own neighbour:
\* degrees[degree].remove(v) raises KeyError.
smallest_last_raises(g) == HasSelfLoop(g)

strategy_smallest_last(g) == SmallestLastOrders(g, NodeSet(g))

\* _maximal_independent_set: v = min(remaining, key=G.degree) in the subgraph
\* of what remains (ties: the set's iteration order, any of them), then drop
\* v and its neighbours.  The nodes of one set are mutually non-adjacent, so
\* the order they are yielded in does not change their colours.
RECURSIVE MaximalIndependentSets(_, _)
MaximalIndependentSets(g, remaining) ==
  IF remaining = {} THEN {<<>>}
  ELSE LET m == Min({DegreeIn(g, remaining, v) : v \in remaining})
       IN UNION {{<<v>> \o s :
                    s \in MaximalIndependentSets(g, remaining \ (Nbrs(g, v) \cup {v}))} :
                 v \in {w \in remaining : DegreeIn(g, remaining, w) = m}}

RECURSIVE IndependentSetOrders(_, _)
IndependentSetOrders(g, remaining_nodes) ==
  IF remaining_nodes = {} THEN {<<>>}
  ELSE UNION {{ns \o s : s \in IndependentSetOrders(g, remaining_nodes \ Range(ns))} :
              ns \in MaximalIndependentSets(g, remaining_nodes)}

strategy_independent_set(g) == IndependentSetOrders(g, NodeSet(g))

\* nx.connected_components(G): the components in the order of their first node
RECURSIVE Closure(_, _)
Closure(g, S) ==
  LET T == S \cup UNION {Nbrs(g, v) : v \in S}
  IN IF T = S THEN S ELSE Closure(g, T)

RECURSIVE ComponentsOf(_, _, _)
ComponentsOf(g, rest, seen) ==
  IF rest = <<>> THEN <<>>
  ELSE IF Head(rest) \in seen THEN ComponentsOf(g, Tail(rest), seen)
  ELSE LET c == Closure(g, {Head(rest)})
       IN <<c>> \o ComponentsOf(g, Tail(rest), seen \cup c)

\* nx.bfs_edges: expand the visited nodes in turn, children in adjacency order
RECURSIVE BfsOrder(_, _, _)
BfsOrder(g, order, k) ==
  IF k > Len(order) THEN order
  ELSE BfsOrder(g, order \o SelectSeq(g.adj[order[k]], LAMBDA c : c \notin Range(order)), k + 1)

\* nx.dfs_edges: a stack of child iterators; the first unvisited child of the
\* top is visited and pushed, an exhausted top is popped
RECURSIVE DfsOrder(_, _, _)
DfsOrder(g, visited, stack) ==
  IF stack = <<>> THEN visited
  ELSE LET n == Len(stack)
           top == stack[n]
       IN IF top = <<>> THEN DfsOrder(g, visited, SubSeq(stack, 1, n - 1))
          ELSE LET c == Head(top)
                   rest == [stack EXCEPT ![n] = Tail(top)]
               IN IF c \in Range(visited) THEN DfsOrder(g, visited, rest)
                  ELSE DfsOrder(g, Append(visited, c), Append(rest, g.adj[c]))

Traverse(g, source, traversal) ==
  IF traversal = "bfs" THEN BfsOrder(g, <<source>>, 1)
  ELSE DfsOrder(g, <<source>>, <<g.adj[source]>>)

\* source = arbitrary_element(component): any node of the component
RECURSIVE ConnectedOrders(_, _, _)
ConnectedOrders(g, comps, traversal) ==
  IF comps = <<>> THEN {<<>>}
  ELSE {Traverse(g, source, traversal) \o s :
          source \in Head(comps), s \in ConnectedOrders(g, Tail(comps), traversal)}

strategy_connected_sequential(g, traversal) ==
  ConnectedOrders(g, ComponentsOf(g, g.nodes, {}), traversal)

\* saturation_largest_first: the next node is the uncoloured node with the
\* most distinct colours among its neighbours, ties by degree, then by
\* insertion order (max returns the first maximum); with nothing coloured
\* this is max(G, key=G.degree).
Saturation(g, colors, v) == Cardinality({colors[w] : w \in Nbrs(g, v) \cap DOMAIN colors})

KeyLess(g, colors, a, b) ==
  \/ Saturation(g, colors, a) < Saturation(g, colors, b)
  \/ /\ Saturation(g, colors, a) = Saturation(g, colors, b)
     /\ Degree(g, a) < Degree(g, b)

SaturationNext(g, colors) ==
  LET cand == SelectSeq(g.nodes, LAMBDA v : v \notin DOMAIN colors)
      k == Min({j \in 1..Len(cand) :
                  /\ \A l \in 1..Len(cand) : ~KeyLess(g, colors, cand[j], cand[l])})
  IN cand[k]

RECURSIVE SaturationColoring(_, _)
SaturationColoring(g, colors) ==
  IF DOMAIN colors = NodeSet(g) THEN colors
  ELSE SaturationColoring(g, ColorNode(g, colors, SaturationNext(g, colors)))

\* The orders a strategy can produce (saturation_largest_first apart)
StrategyOrders(g, strategy) ==
  CASE strategy = "largest_first" -> strategy_largest_first(g)
    [] strategy = "random_sequential" -> strategy_random_sequential(g)
    [] strategy = "smallest_last" -> strategy_smallest_last(g)
    [] strategy = "independent_set" -> strategy_independent_set(g)
    [] strategy = "connected_sequential_bfs" -> strategy_connected_sequential(g, "bfs")
    [] strategy = "connected_sequential_dfs" -> strategy_connected_sequential(g, "dfs")

\* greedy_color raises instead of returning
greedy_color_raises(g, strategy) ==
  Len(g.nodes) > 0 /\ strategy = "smallest_last" /\ smallest_last_raises(g)

\* The colourings greedy_color(g, strategy) can return: if len(G) == 0 the
\* empty mapping, else the greedy colouring along an order of the strategy.
greedy_color(g, strategy) ==
  IF Len(g.nodes) = 0 THEN {<<>>}
  ELSE IF strategy = "saturation_largest_first" THEN {SaturationColoring(g, <<>>)}
  ELSE {ColorInOrder(g, <<>>, order) : order \in StrategyOrders(g, strategy)}

\* max(coloring.values()) + 1
NumOfColors(coloring) == Max({coloring[v] : v \in DOMAIN coloring}) + 1

\* sorted(coloring): the keys in ascending order
RECURSIVE Sorted(_)
Sorted(S) == IF S = {} THEN <<>> ELSE <<Min(S)>> \o Sorted(S \ {Min(S)})

\* The keys left in descending order
CsvRowsDescending(coloring) ==
  LET keys == Sorted(DOMAIN coloring)
      n == Len(keys)
  IN <<<<"vertex", "color">>>> \o
     [k \in 1..n |-> <<Str(keys[n + 1 - k]), Str(coloring[keys[n + 1 - k]])>>]

\* The rows write_coloring_to_csv writes: the column names, then one row per
\* key of the sorted dictionary
CsvRows(coloring) ==
  LET keys == Sorted(DOMAIN coloring)
  IN <<<<"vertex", "color">>>> \o
     [k \in 1..Len(keys) |-> <<Str(keys[k]), Str(coloring[keys[k]])>>]

\* What the lines after the first one say, read off the file itself: a line
\* is an edge line when it is exactly two integers.
TwoIntegers(row) == Len(row) = 2 /\ \A j \in 1..2 : row[j] \in IntTokens

EdgeLineIntegers(f) ==
  UNION {{ParseInt(f[k][j]) : j \in {l \in 1..Len(f[k]) : f[k][l] \in IntTokens}} :
         k \in 2..Len(f)}

HasMalformedLine(f) == \E k \in 2..Len(f) : ~TwoIntegers(f[k])

NoError == [type |-> "none", in |-> "none"]

VARIABLES
  input_vertices,     \* the integers on the edge lines of the input file
  input_malformed,    \* some edge line of the input file is not two integers
  file,               \* the lines not read yet
  graph,              \* graph of read_graph_from_csv / main
  pc,                 \* where the run is
  i,                  \* find_best_strategy: the loop index
  strategy,           \* the strategy of the last greedy_color call
  coloring,           \* the result of the last greedy_color call
  counts,             \* num_of_colors of each iteration so far
  best_strategy,      \* find_best_strategy: "unbound" before the first assignment
  min_num_of_colors,  \* find_best_strategy: -1 while unbound
  output,             \* the rows of the output file; <<>> while not opened
  stdout,             \* the lines printed
  err                 \* the exception that ended the run

vars ==
  << input_vertices, input_malformed, file, graph, pc, i, strategy, coloring, counts, best_strategy,
     min_num_of_colors, output, stdout, err >>

Fresh ==
  /\ i = 0
  /\ coloring = <<>>
  /\ counts = <<>>
  /\ best_strategy = "unbound"
  /\ min_num_of_colors = -1
  /\ output = <<>>
  /\ stdout = <<>>
  /\ err = NoError

Init ==
  /\ file \in InputFiles
  /\ input_vertices = EdgeLineIntegers(file)
  /\ input_malformed = HasMalformedLine(file)
  /\ graph = EmptyGraph
  /\ strategy = "none"
  /\ pc = "header"
  /\ Fresh

Raise(type, in) ==
  /\ pc' = "error"
  /\ err' = [type |-> type, in |-> in]

\* next(reader): skip the first line
SkipHeader ==
  /\ pc = "header"
  /\ IF file = <<>>
     THEN /\ Raise("StopIteration", "read_graph_from_csv")
          /\ UNCHANGED file
     ELSE /\ file' = Tail(file)
          /\ pc' = "rows"
          /\ UNCHANGED err
  /\ UNCHANGED << input_vertices, input_malformed, graph, i, strategy, coloring, counts, best_strategy,
                  min_num_of_colors, output, stdout >>

\* for row in reader: vertex1, vertex2 = map(int, row); graph.add_edge(...)
ReadRow ==
  /\ pc = "rows"
  /\ file # <<>>
  /\ LET row == Head(file)
     IN IF RowParses(row)
        THEN /\ graph' = add_edge(graph, ParseInt(row[1]), ParseInt(row[2]))
             /\ file' = Tail(file)
             /\ UNCHANGED << pc, err >>
        ELSE /\ Raise("ValueError", "read_graph_from_csv")
             /\ UNCHANGED << graph, file >>
  /\ UNCHANGED << input_vertices, input_malformed, i, strategy, coloring, counts, best_strategy,
                  min_num_of_colors, output, stdout >>

\* return graph; main calls find_best_strategy(graph)
ReadEnd ==
  /\ pc = "rows"
  /\ file = <<>>
  /\ pc' = "select"
  /\ UNCHANGED << input_vertices, input_malformed, file, graph, i, strategy, coloring, counts, best_strategy,
                  min_num_of_colors, output, stdout, err >>

\* Overwrites the best on a tie as well
ImprovesOrTies(k, num_of_colors, best) == (k = 0) \/ (num_of_colors <= best)

\* if (i == 0) or (num_of_colors < min_num_of_colors)
Improves(k, num_of_colors, best) == (k = 0) \/ (num_of_colors < best)

\* One iteration of the loop of find_best_strategy
EvalStrategy ==
  /\ pc = "select"
  /\ i < Len(possible_strategies)
  /\ LET s == possible_strategies[i + 1]
     IN /\ strategy' = s
        /\ IF greedy_color_raises(graph, s)
           THEN /\ Raise("KeyError", "find_best_strategy")
                /\ UNCHANGED << i, coloring, counts, best_strategy, min_num_of_colors >>
           ELSE \E c \in greedy_color(graph, s) :
                  /\ coloring' = c
                  /\ IF DOMAIN c = {}
                     THEN \* max() of an empty sequence
                          /\ Raise("ValueError", "find_best_strategy")
                          /\ UNCHANGED << i, counts, best_strategy, min_num_of_colors >>
                     ELSE /\ counts' = Append(counts, NumOfColors(c))
                          /\ IF Improves(i, NumOfColors(c), min_num_of_colors)
                             THEN /\ best_strategy' = s
                                  /\ min_num_of_colors' = NumOfColors(c)
                             ELSE UNCHANGED << best_strategy, min_num_of_colors >>
                          /\ i' = i + 1
                          /\ UNCHANGED << pc, err >>
  /\ UNCHANGED << input_vertices, input_malformed, file, graph, output, stdout >>

\* return best_strategy; coloring = nx.coloring.greedy_color(graph, strategy=best_strategy)
Recolor ==
  /\ pc = "select"
  /\ i = Len(possible_strategies)
  /\ strategy' = best_strategy
  /\ IF greedy_color_raises(graph, best_strategy)
     THEN /\ Raise("KeyError", "main")
          /\ UNCHANGED coloring
     ELSE /\ coloring' \in greedy_color(graph, best_strategy)
          /\ pc' = "write"
          /\ UNCHANGED err
  /\ UNCHANGED << input_vertices, input_malformed, file, graph, i, counts, best_strategy, min_num_of_colors,
                  output, stdout >>

\* write_coloring_to_csv(write_colors_to, coloring, verbose=verbose), then
\* the summary if verbose
WriteCsv ==
  /\ pc = "write"
  /\ output' = CsvRows(coloring)
  /\ \E verbose \in BOOLEAN :
       stdout' = IF verbose
                 THEN << <<"Stored coloring data">>,
                         <<"Colored graph with", NumOfColors(coloring), "colors">> >>
                 ELSE <<>>
  /\ pc' = "done"
  /\ UNCHANGED << input_vertices, input_malformed, file, graph, i, strategy, coloring, counts, best_strategy,
                  min_num_of_colors, err >>

Next == SkipHeader \/ ReadRow \/ ReadEnd \/ EvalStrategy \/ Recolor \/ WriteCsv

Spec == Init /\ [][Next]_vars

(***************************************************************************)
(* greedy_color as a function of the graph and the strategy: every graph   *)
(* of the bounds, nodes without edges included, under every strategy.      *)
(***************************************************************************)
RECURSIVE AddEdges(_, _)
AddEdges(g, rows) ==
  IF rows = <<>> THEN g
  ELSE AddEdges(add_edge(g, ParseInt(Head(rows)[1]), ParseInt(Head(rows)[2])), Tail(rows))

\* Nodes 1..n added first, then the edges of the rows
GraphOf(n, rows) ==
  AddEdges([nodes |-> [k \in 1..n |-> k], adj |-> [x \in 1..n |-> <<>>]], rows)

ColorInputs ==
  {GraphOf(n, rows) :
     n \in 0..MaxV,
     rows \in SeqsUpTo(EdgeRows, MaxRows) \cup {Tail(f) : f \in ScenarioFiles}}

InitColor ==
  /\ file = <<>>
  /\ input_vertices = {}
  /\ input_malformed = FALSE
  /\ graph \in ColorInputs
  /\ strategy \in Range(possible_strategies)
  /\ pc = "call"
  /\ Fresh

\* coloring = nx.coloring.greedy_color(graph, strategy=strategy)
ApplyColor ==
  /\ pc = "call"
  /\ IF greedy_color_raises(graph, strategy)
     THEN /\ Raise("KeyError", "greedy_color")
          /\ UNCHANGED coloring
     ELSE /\ coloring' \in greedy_color(graph, strategy)
          /\ pc' = "returned"
          /\ UNCHANGED err
  /\ UNCHANGED << input_vertices, input_malformed, file, graph, i, strategy, counts, best_strategy,
                  min_num_of_colors, output, stdout >>

NextColor == ApplyColor

SpecColor == InitColor /\ [][NextColor]_vars

(***************************************************************************)
(* Properties                                                              *)
(***************************************************************************)
ColorsUsed(c) == {c[v] : v \in DOMAIN c}

\* A greedy_color call of the run has returned a colouring of a non-empty graph
HasColoring == i > 0

\* C1 as stated: the colouring a strategy returns gives the two endpoints of every
\* edge of the loaded graph different colours.
C1_EveryEdgeProper ==
  HasColoring =>
    \A v \in NodeSet(graph) : \A w \in Nbrs(graph, v) : coloring[v] # coloring[w]

\* C1 amended: the colouring a strategy returns covers exactly the vertices
\* of the loaded graph and gives the endpoints of every edge between two
\* distinct vertices different colours.
C1_DistinctEndpointsProper ==
  HasColoring =>
    /\ DOMAIN coloring = NodeSet(graph)
    /\ \A v \in NodeSet(graph) : \A w \in Nbrs(graph, v) :
         v # w => coloring[v] # coloring[w]

\* All seven strategies have coloured a graph with an odd cycle
C1_Witness ==
  /\ pc = "select"
  /\ i = Len(possible_strategies)
  /\ strategy = "saturation_largest_first"
  /\ Len(graph.nodes) >= 3
  /\ \A v \in NodeSet(graph) : Cardinality(Nbrs(graph, v)) >= 2

\* C2: the colouring main finally computes uses no more colours than any
\* of the seven colourings counted during the selection.
C2_FinalNoWorseThanAnyTrial ==
  pc \in {"write", "done"} =>
    \A k \in 1..Len(counts) : NumOfColors(coloring) <= counts[k]

\* C3: strategies are evaluated in the order of possible_strategies, and
\* after iteration i the recorded best is the first strategy among the
\* first i whose count is the minimum of their counts.
C3_FirstMinimalKept ==
  i > 0 =>
    LET m == Min({counts[k] : k \in 1..i})
        first == Min({k \in 1..i : counts[k] = m})
    IN /\ Len(counts) = i
       /\ min_num_of_colors = m
       /\ best_strategy = possible_strategies[first]
       /\ pc = "select" => strategy = possible_strategies[i]
       /\ pc \in {"write", "done"} => strategy = possible_strategies[first]

\* The loop is over, a later strategy ties with the best, and the best is
\* not the first strategy
C3_Witness ==
  /\ pc = "select"
  /\ i = Len(possible_strategies)
  /\ best_strategy = "random_sequential"
  /\ counts[1] > counts[2]
  /\ counts[3] = counts[2]

\* C4: a header-only input (a graph with no vertex) does not end in an
\* error in the selection.
C4_EmptyGraphHandled ==
  (file = <<>> /\ Len(graph.nodes) = 0 /\ err.in # "read_graph_from_csv") => pc # "error"

IsComplete(g) ==
  /\ Len(g.nodes) >= 1
  /\ \A v \in NodeSet(g) : Nbrs(g, v) = NodeSet(g) \ {v}

\* C5: on a complete graph every strategy returns a colouring with one
\* colour per vertex, n colours in all.
C5_CompleteGraphNColors ==
  (pc # "call" /\ IsComplete(graph)) =>
    /\ pc = "returned"
    /\ DOMAIN coloring = NodeSet(graph)
    /\ \A v, w \in NodeSet(graph) : v # w => coloring[v] # coloring[w]
    /\ NumOfColors(coloring) = Len(graph.nodes)
    /\ Cardinality(ColorsUsed(coloring)) = Len(graph.nodes)

\* A strategy with tie-breaks has coloured the complete graph on four vertices
C5_Witness ==
  /\ pc = "returned"
  /\ IsComplete(graph)
  /\ Len(graph.nodes) = 4
  /\ strategy = "independent_set"

IsEdgeless(g) ==
  /\ Len(g.nodes) >= 1
  /\ \A v \in NodeSet(g) : g.adj[v] = <<>>

\* C6: on a graph with vertices and no edge every strategy returns the
\* colouring that gives every vertex colour 0.
C6_EdgelessOneColor ==
  (pc # "call" /\ IsEdgeless(graph)) =>
    /\ pc = "returned"
    /\ DOMAIN coloring = NodeSet(graph)
    /\ \A v \in NodeSet(graph) : coloring[v] = 0
    /\ NumOfColors(coloring) = 1

\* Three isolated vertices coloured
C6_Witness ==
  /\ pc = "returned"
  /\ IsEdgeless(graph)
  /\ Len(graph.nodes) = 3
  /\ strategy = "smallest_last"

\* C7: the colours of a returned colouring of a non-empty graph are exactly
\* 0..k-1, so max + 1 is the number of distinct colours.
C7_ColorsContiguous ==
  (pc = "returned" /\ Len(graph.nodes) >= 1) =>
    /\ ColorsUsed(coloring) = 0..(NumOfColors(coloring) - 1)
    /\ Cardinality(ColorsUsed(coloring)) = NumOfColors(coloring)

\* A colouring with three colours on a graph that is not complete
C7_Witness ==
  /\ pc = "returned"
  /\ Len(graph.nodes) >= 1
  /\ ~IsComplete(graph)
  /\ NumOfColors(coloring) = 3
  /\ strategy = "largest_first"

\* C9: the output file is the header row and then one row per vertex on
\* the input's edge lines, in strictly ascending order of vertex id, each
\* with the colour of the final colouring.
C9_OutputRows ==
  pc = "done" =>
    /\ Len(output) = 1 + Cardinality(input_vertices)
    /\ output[1] = <<"vertex", "color">>
    /\ \A k \in 2..Len(output) :
         /\ Len(output[k]) = 2
         /\ IsInt(output[k][1]) /\ IsInt(output[k][2])
         /\ ParseInt(output[k][1]) \in input_vertices
         /\ ParseInt(output[k][1]) \in DOMAIN coloring
         /\ ParseInt(output[k][2]) = coloring[ParseInt(output[k][1])]
         /\ k > 2 => ParseInt(output[k - 1][1]) < ParseInt(output[k][1])

\* A written file for a graph whose insertion order is not ascending
C9_Witness ==
  /\ pc = "done"
  /\ Len(output) >= 4
  /\ \E k \in 2..Len(graph.nodes) : graph.nodes[k - 1] > graph.nodes[k]

\* C10: with an edge line that is not exactly two integers the run never
\* gets past the loader: no strategy is evaluated, nothing is coloured or
\* written, and the only way it stops is the loader's ValueError.
C10_MalformedLineIsFatal ==
  input_malformed =>
    /\ pc \in {"header", "rows", "error"}
    /\ i = 0 /\ strategy = "none" /\ counts = <<>> /\ coloring = <<>>
    /\ best_strategy = "unbound"
    /\ output = <<>> /\ stdout = <<>>
    /\ pc = "error" => err = [type |-> "ValueError", in |-> "read_graph_from_csv"]
    /\ pc # "error" => ENABLED Next

\* The loader has failed after it had added edges
C10_Witness ==
  /\ input_malformed
  /\ pc = "error"
  /\ err = [type |-> "ValueError", in |-> "read_graph_from_csv"]
  /\ Len(graph.nodes) >= 3

====
